---- MODULE Spec2Model ----
(***************************************************************************)
(* Model of the lotto line-generation engine (src/src/line_mode.py) with   *)
(* the signal functions (src/src/signals.py) and the signal combiner       *)
(* (src/src/combiner.py) it calls.                                         *)
(*                                                                         *)
(* Floats are fixed-point integers: a score s is held as s * Scale, a      *)
(* preset parameter or signal weight p as p * 100.  The process-wide       *)
(* random source is a deterministic generator with a finite state: seeding *)
(* sets the state to a function of the seed, each draw advances the state  *)
(* and its output is a function of the new state.  The lottery profiles    *)
(* keep the shape of the configured ones (a 6-number lottery without bonus,*)
(* a 5-number lottery with a bonus pool of 2) over scaled-down pools.      *)
(***************************************************************************)
EXTENDS Integers, Sequences, FiniteSets, TLC

\* ------------------------------------------------------------------ bounds
Scale == 1000
ExpTerms == 10
RngMod == 16
MaxRngInit == 1
MaxSeed == 0
MaxLines == 2
MaxDraws == 2
MaxShortLocks == 2
MaxOddLocks == 6
PoolMax == 10
BonusPoolMax == 4
MaxKey == 2
MaxBalValue == 8
MaxLiftDraws == 4
LiftPoolMax == 3

\* --------------------------------------------------------- program constants
SHORT_TERM_WINDOW == 20
WEIGHT_SHORT_TERM == 35
WEIGHT_LONG_TERM == 25
WEIGHT_HOTNESS == 20
MaxAttempts == 200
BalanceMinCount == 6
MIN_NUMBER == 1
MAX_NUMBER == 49

\* ------------------------------------------------------------ list helpers
SeqToSet(s) == { s[i] : i \in DOMAIN s }

Max2(a, b) == IF a >= b THEN a ELSE b

Min2(a, b) == IF a <= b THEN a ELSE b

Abs(a) == IF a >= 0 THEN a ELSE -a

\* float division, rounded toward zero on the fixed-point grid (b > 0)
FxDiv(a, b) == IF a >= 0 THEN a \div b ELSE -((-a) \div b)

RECURSIVE SumSeq(_)
SumSeq(s) == IF s = <<>> THEN 0 ELSE Head(s) + SumSeq(Tail(s))

RECURSIVE CountIn(_, _)
CountIn(s, n) ==
    IF s = <<>> THEN 0
    ELSE (IF Head(s) = n THEN 1 ELSE 0) + CountIn(Tail(s), n)

\* list(dict.fromkeys(xs)): first occurrences, order preserved
RECURSIVE Dedupe(_)
Dedupe(s) ==
    IF s = <<>> THEN <<>>
    ELSE LET init == Dedupe(SubSeq(s, 1, Len(s) - 1))
             last == s[Len(s)]
         IN  IF last \in SeqToSet(init) THEN init ELSE Append(init, last)

\* list.remove(x): drops the first occurrence
RECURSIVE Remove(_, _)
Remove(s, x) ==
    IF s = <<>> THEN <<>>
    ELSE IF Head(s) = x THEN Tail(s)
    ELSE <<Head(s)>> \o Remove(Tail(s), x)

RECURSIVE InsertSorted(_, _)
InsertSorted(s, x) ==
    IF s = <<>> THEN <<x>>
    ELSE IF x < Head(s) THEN <<x>> \o s
    ELSE <<Head(s)>> \o InsertSorted(Tail(s), x)

\* sorted(xs): ascending, duplicates kept
RECURSIVE Sorted(_)
Sorted(s) ==
    IF s = <<>> THEN <<>>
    ELSE InsertSorted(Sorted(SubSeq(s, 1, Len(s) - 1)), s[Len(s)])

\* [n for n in range(lo, hi + 1) if n not in excluded]
RangeExcept(lo, hi, excluded) ==
    LET RECURSIVE go(_)
        go(n) == IF n > hi THEN <<>>
                 ELSE (IF n \in excluded THEN <<>> ELSE <<n>>) \o go(n + 1)
    IN  go(lo)

\* sorted(set(xs))
SortedSet(S) ==
    LET RECURSIVE go(_)
        go(T) == IF T = {} THEN <<>>
                 ELSE LET m == CHOOSE x \in T : \A y \in T : x <= y
                      IN  <<m>> \o go(T \ {m})
    IN  go(S)

\* -------------------------------------------------- process-wide random source
\* one step of the generator
RngNext(s) == (5 * s + 3) % RngMod

\* random.seed(seed)
RngSeed(seed) == (7 * seed + 3) % RngMod

\* random.shuffle(pool): Fisher-Yates from the last index down, one bounded
\* draw per index; returns the shuffled list and the generator's state
RECURSIVE ShuffleFrom(_, _, _)
ShuffleFrom(pool, i, s) ==
    IF i < 2 THEN [list |-> pool, rng |-> s]
    ELSE LET s1 == RngNext(s)
             j  == (s1 % i) + 1
             swapped == [pool EXCEPT ![i] = pool[j], ![j] = pool[i]]
         IN  ShuffleFrom(swapped, i - 1, s1)

Shuffle(pool, s) == ShuffleFrom(pool, Len(pool), s)

\* ------------------------------------------------------------ configuration
LOTTERY_PROFILES ==
    [ irish_lotto  |-> [min |-> 1, max |-> PoolMax, numbers_per_draw |-> 6,
                        bonus |-> FALSE, bonus_min |-> 0, bonus_max |-> 0,
                        bonus_count |-> 0],
      euromillions |-> [min |-> 1, max |-> PoolMax, numbers_per_draw |-> 5,
                        bonus |-> TRUE, bonus_min |-> 1,
                        bonus_max |-> BonusPoolMax, bonus_count |-> 2] ]

PRESET_PARAMS ==
    [ conservative |-> [temperature |-> 90,  randomness_blend |-> 45, pair_strength |-> 20],
      balanced     |-> [temperature |-> 120, randomness_blend |-> 25, pair_strength |-> 35],
      aggressive   |-> [temperature |-> 170, randomness_blend |-> 10, pair_strength |-> 60] ]

\* ------------------------------------------------------------------- signals
\* df.tail(n)
DfTail(df, n) == IF Len(df) <= n THEN df ELSE SubSeq(df, Len(df) - n + 1, Len(df))

\* Counter over every row's numbers
Observed(df, n) == SumSeq([i \in DOMAIN df |-> CountIn(df[i].numbers, n)])

\* (observed - expected) / expected with expected = total * per_draw / pool size
FrequencyDeviation(df, min_number, max_number) ==
    LET total_draws      == Len(df)
        numbers_per_draw == Len(df[1].numbers)
        size             == max_number - min_number + 1
        denom            == total_draws * numbers_per_draw
    IN  IF denom = 0
        THEN [err |-> "ZeroDivisionError", val |-> <<>>]
        ELSE [err |-> "",
              val |-> [n \in min_number..max_number |->
                         FxDiv((Observed(df, n) * size - denom) * Scale, denom)]]

short_term_trend_signal(df, min_number, max_number) ==
    FrequencyDeviation(DfTail(df, SHORT_TERM_WINDOW), min_number, max_number)

long_term_trend_signal(df, min_number, max_number) ==
    FrequencyDeviation(df, min_number, max_number)

hot_cold_gap_signal(df, min_number, max_number) ==
    LET total_draws == Len(df)
        seen(n)     == { i \in DOMAIN df : n \in SeqToSet(df[i].numbers) }
        \* rows are enumerated from 0 in the code: gap = total - last_seen - 1
        gap(n)      == IF seen(n) = {} THEN total_draws
                       ELSE total_draws - (CHOOSE i \in seen(n) : \A j \in seen(n) : j <= i)
        gaps        == [n \in min_number..max_number |-> gap(n)]
        top         == IF DOMAIN gaps = {} THEN 0
                       ELSE CHOOSE g \in { gaps[n] : n \in DOMAIN gaps } :
                                \A n \in DOMAIN gaps : gaps[n] <= g
        max_gap     == IF top = 0 THEN 1 ELSE top
    IN  [err |-> "",
         val |-> [n \in min_number..max_number |-> FxDiv(gaps[n] * Scale, max_gap)]]

\* ------------------------------------------------------------------ combiner
_normalize(scores) ==
    IF DOMAIN scores = {} THEN scores
    ELSE LET top     == CHOOSE m \in { Abs(scores[k]) : k \in DOMAIN scores } :
                            \A k \in DOMAIN scores : Abs(scores[k]) <= m
             max_abs == IF top = 0 THEN Scale ELSE top
         IN  [k \in DOMAIN scores |-> FxDiv(scores[k] * Scale, max_abs)]

\* dict.get(n, 0.0)
GetOr0(d, n) == IF n \in DOMAIN d THEN d[n] ELSE 0

combine_signals_common_keys(short_term, long_term, hot_cold, preset) ==
    LET st == _normalize(short_term)
        lt == _normalize(long_term)
        hc == _normalize(hot_cold)
    IN  [n \in (DOMAIN st \cap DOMAIN lt) \cap DOMAIN hc |-> [score |-> 0, confidence |-> 0]]

combine_signals(short_term, long_term, hot_cold, preset) ==
    LET st == _normalize(short_term)
        lt == _normalize(long_term)
        hc == _normalize(hot_cold)
        dominance       == IF preset = "conservative" THEN 70
                           ELSE IF preset = "aggressive" THEN 140 ELSE 100
        randomness_damp == IF preset = "conservative" THEN 50
                           ELSE IF preset = "aggressive" THEN 120 ELSE 100
        weighted(n)     == FxDiv(WEIGHT_SHORT_TERM * st[n]
                                 + WEIGHT_LONG_TERM * GetOr0(lt, n)
                                 + WEIGHT_HOTNESS * GetOr0(hc, n), 100)
        cap             == FxDiv(dominance * Scale, 100)
        raw_score(n)    == IF preset = "aggressive"
                           THEN FxDiv(weighted(n) * dominance, 100)
                           ELSE Max2(Min2(weighted(n), cap), -cap)
    IN  [n \in DOMAIN st |->
           [score      |-> raw_score(n),
            confidence |-> Min2(FxDiv(Abs(raw_score(n)) * randomness_damp, 100), Scale)]]

\* --------------------------------------------------------------- line mode
\* math.exp on the fixed-point grid: Taylor series for x >= 0, reciprocal below
ExpPos(x) ==
    LET RECURSIVE go(_, _, _)
        go(k, term, acc) ==
            IF k > ExpTerms THEN acc
            ELSE LET t == (term * x) \div (k * Scale) IN go(k + 1, t, acc + t)
    IN  go(1, Scale, Scale)

FxExp(x) == IF x >= 0 THEN ExpPos(x) ELSE (Scale * Scale) \div ExpPos(-x)

_build_combined_for_pool(df_pool, min_n, max_n, preset) ==
    LET st == short_term_trend_signal(df_pool, min_n, max_n)
        lt == long_term_trend_signal(df_pool, min_n, max_n)
        gap == hot_cold_gap_signal(df_pool, min_n, max_n)
    IN  IF st.err # "" THEN [err |-> st.err, val |-> <<>>]
        ELSE IF lt.err # "" THEN [err |-> lt.err, val |-> <<>>]
        ELSE IF gap.err # "" THEN [err |-> gap.err, val |-> <<>>]
        ELSE [err |-> "", val |-> combine_signals(st.val, lt.val, gap.val, preset)]

_scores_to_weights(combined, candidates, preset, pair_boosts) ==
    LET params == PRESET_PARAMS[preset]
        raw(n) ==
            LET w == FxExp(FxDiv(combined[n].score * params.temperature, 100))
            IN  IF n \in DOMAIN pair_boosts
                THEN FxDiv(w * (Scale + pair_boosts[n]), Scale)
                ELSE w
    IN  [i \in DOMAIN candidates |->
           FxDiv((100 - params.randomness_blend) * raw(candidates[i])
                 + params.randomness_blend * Scale, 100)]

\* one draw from the random source; returns the item and the generator's state
_weighted_choice_no_replace(candidates, weights, s) ==
    LET total == SumSeq(weights)
        s1    == RngNext(s)
        RECURSIVE scan(_, _)
        scan(i, upto) ==
            IF i > Len(candidates) THEN candidates[Len(candidates)]
            ELSE IF (upto + weights[i]) * RngMod >= s1 * total THEN candidates[i]
            ELSE scan(i + 1, upto + weights[i])
    IN  IF total <= 0
        THEN [pick |-> candidates[(s1 % Len(candidates)) + 1], rng |-> s1]
        ELSE [pick |-> scan(1, 0), rng |-> s1]

_passes_balance_strict_midpoint(numbers, min_n, max_n) ==
    LET k    == Len(numbers)
        odds == Cardinality({ i \in DOMAIN numbers : numbers[i] % 2 = 1 })
        low  == Cardinality({ i \in DOMAIN numbers : 2 * numbers[i] < min_n + max_n })
    IN  IF k >= BalanceMinCount /\ (odds < 2 \/ odds > 4) THEN FALSE
        ELSE IF k >= BalanceMinCount /\ (low < 2 \/ low > 4) THEN FALSE
        ELSE TRUE

_passes_balance_no_range_split(numbers, min_n, max_n) ==
    LET k    == Len(numbers)
        odds == Cardinality({ i \in DOMAIN numbers : numbers[i] % 2 = 1 })
    IN  ~(k >= BalanceMinCount /\ (odds < 2 \/ odds > 4))

_passes_balance(numbers, min_n, max_n) ==
    LET k    == Len(numbers)
        odds == Cardinality({ i \in DOMAIN numbers : numbers[i] % 2 = 1 })
        \* n <= (min_n + max_n) / 2.0
        low  == Cardinality({ i \in DOMAIN numbers : 2 * numbers[i] <= min_n + max_n })
    IN  IF k >= BalanceMinCount /\ (odds < 2 \/ odds > 4) THEN FALSE
        ELSE IF k >= BalanceMinCount /\ (low < 2 \/ low > 4) THEN FALSE
        ELSE TRUE

_validate_locks_no_duplicate_check(locked, profile) ==
    IF Len(locked) > profile.numbers_per_draw THEN "ValueError: too many locked numbers"
    ELSE IF \E i \in DOMAIN locked : ~(profile.min <= locked[i] /\ locked[i] <= profile.max)
    THEN "ValueError: locked number out of range"
    ELSE ""

\* the error raised, "" when the locks are valid
_validate_locks(locked, profile) ==
    IF Cardinality(SeqToSet(locked)) # Len(locked)
    THEN "ValueError: locked numbers contain duplicates"
    ELSE IF Len(locked) > profile.numbers_per_draw
    THEN "ValueError: too many locked numbers"
    ELSE IF \E i \in DOMAIN locked : ~(profile.min <= locked[i] /\ locked[i] <= profile.max)
    THEN "ValueError: locked number out of range"
    ELSE ""

\* eps = 1e-9 on the fixed-point grid
LiftEps == FxDiv(Scale, 1000000000)

_compute_pair_lifts_uncapped(df_l, min_n, max_n) ==
    LET total_draws == Len(df_l)
        unique_nums(i) == SeqToSet(df_l[i].numbers)
        indiv(n) == Cardinality({ i \in DOMAIN df_l : n \in unique_nums(i) })
        pair_count(a, b) ==
            Cardinality({ i \in DOMAIN df_l : a \in unique_nums(i) /\ b \in unique_nums(i) })
        keys == { <<a, b>> \in (min_n..max_n) \X (min_n..max_n) :
                    a < b /\ pair_count(a, b) > 0 }
        lift(a, b) ==
            LET expected == FxDiv(indiv(a) * indiv(b) * Scale, total_draws)
            IN  FxDiv(pair_count(a, b) * Scale * Scale, expected + LiftEps)
    IN  IF total_draws = 0 THEN <<>>
        ELSE [p \in keys |-> Max2(0, lift(p[1], p[2]) - Scale)]

_compute_pair_lifts(df_l, min_n, max_n) ==
    LET total_draws == Len(df_l)
        unique_nums(i) == SeqToSet(df_l[i].numbers)
        in_range(n) == min_n <= n /\ n <= max_n
        indiv(n) == Cardinality({ i \in DOMAIN df_l : n \in unique_nums(i) })
        pair_count(a, b) ==
            Cardinality({ i \in DOMAIN df_l : a \in unique_nums(i) /\ b \in unique_nums(i) })
        \* combinations(sorted(set(nums)), 2): a before b in ascending order
        keys == { <<a, b>> \in (min_n..max_n) \X (min_n..max_n) :
                    a < b /\ pair_count(a, b) > 0 }
        lift(a, b) ==
            LET expected == FxDiv(indiv(a) * indiv(b) * Scale, total_draws)
            IN  FxDiv(pair_count(a, b) * Scale * Scale, expected + LiftEps)
        excess(a, b) == Max2(0, lift(a, b) - Scale)
    IN  IF total_draws = 0 THEN <<>>
        ELSE [p \in keys |-> Min2(excess(p[1], p[2]), 2 * Scale)]

\* pair_lifts.get((a, b), 0.0)
LiftOr0(pair_lifts, a, b) == IF <<a, b>> \in DOMAIN pair_lifts THEN pair_lifts[<<a, b>>] ELSE 0

\* the boosts computed once from the first number of the selection
_pair_boosts_from_first_selected(selected, candidates, pair_lifts, preset) ==
    LET strength == PRESET_PARAMS[preset].pair_strength
        total(c) == SumSeq([i \in DOMAIN SubSeq(selected, 1, 1) |->
                              IF selected[i] < c
                              THEN LiftOr0(pair_lifts, selected[i], c)
                              ELSE LiftOr0(pair_lifts, c, selected[i])])
    IN  [c \in { x \in SeqToSet(candidates) : total(x) > 0 } |->
           FxDiv(total(c) * strength, 100)]

_pair_boosts_from_selected(selected, candidates, pair_lifts, preset) ==
    LET strength == PRESET_PARAMS[preset].pair_strength
        total(c) == SumSeq([i \in DOMAIN selected |->
                              IF selected[i] < c
                              THEN LiftOr0(pair_lifts, selected[i], c)
                              ELSE LiftOr0(pair_lifts, c, selected[i])])
    IN  [c \in { x \in SeqToSet(candidates) : total(x) > 0 } |->
           FxDiv(total(c) * strength, 100)]

\* the sampling loop of the bonus pool: no pair boosts, no balance check
RECURSIVE BonusLoop(_, _, _, _, _, _)
BonusLoop(combined, preset, selected, remaining, count, s) ==
    IF Len(selected) >= count THEN [selected |-> selected, rng |-> s]
    ELSE LET weights == _scores_to_weights(combined, remaining, preset, <<>>)
             c == _weighted_choice_no_replace(remaining, weights, s)
         IN  BonusLoop(combined, preset, Append(selected, c.pick),
                       Remove(remaining, c.pick), count, c.rng)

UniformBonus_with_replacement(profile, s) ==
    LET pool == RangeExcept(profile.bonus_min, profile.bonus_max, {})
        RECURSIVE go(_, _, _)
        go(k, acc, t) ==
            IF k = 0 THEN [list |-> acc, rng |-> t, draws |-> Max2(Len(pool) - 1, 0)]
            ELSE go(k - 1, Append(acc, pool[(RngNext(t) % Len(pool)) + 1]), RngNext(t))
    IN  go(profile.bonus_count, <<>>, s)

\* pool = list(range(bonus_min, bonus_max + 1)); random.shuffle(pool); pool[:bonus_count]
UniformBonus(profile, s) ==
    LET pool == RangeExcept(profile.bonus_min, profile.bonus_max, {})
        sh   == Shuffle(pool, s)
    IN  [list |-> SubSeq(sh.list, 1, Min2(profile.bonus_count, Len(pool))),
         rng |-> sh.rng, draws |-> Max2(Len(pool) - 1, 0)]

BonusBranch_without_empty_check(df_l, has_bonus_col) ==
    IF ~has_bonus_col THEN "uniform" ELSE "weighted"

\* which branch _generate_bonus_numbers takes
BonusBranch(df_l, has_bonus_col) ==
    IF ~has_bonus_col THEN "uniform"
    ELSE IF SumSeq([i \in DOMAIN df_l |-> Len(df_l[i].bonus)]) = 0 THEN "uniform"
    ELSE "weighted"

\* the bonus history seen as a "numbers" history
BonusView(df_l) == [i \in DOMAIN df_l |-> [df_l[i] EXCEPT !.numbers = df_l[i].bonus]]

\* returns: err, the value returned (is_none: the function ran off its end
\* without a return statement), the generator's state, the draws made and the
\* score tables built
_generate_bonus_numbers(df_l, has_bonus_col, profile, preset, s) ==
    IF BonusBranch(df_l, has_bonus_col) = "uniform"
    THEN LET u == UniformBonus(profile, s)
         IN  [err |-> "", is_none |-> FALSE, list |-> u.list, rng |-> u.rng,
              draws |-> u.draws, builds |-> 0]
    ELSE LET cb == _build_combined_for_pool(BonusView(df_l), profile.bonus_min,
                                            profile.bonus_max, preset)
         IN  IF cb.err # ""
             THEN [err |-> cb.err, is_none |-> TRUE, list |-> <<>>, rng |-> s,
                   draws |-> 0, builds |-> 1]
             ELSE LET r == BonusLoop(cb.val, preset, <<>>,
                                     RangeExcept(profile.bonus_min, profile.bonus_max, {}),
                                     profile.bonus_count, s)
                  IN  [err |-> "", is_none |-> TRUE, list |-> <<>>, rng |-> r.rng,
                       draws |-> profile.bonus_count, builds |-> 1]

\* one iteration of "while len(selected) < count" per level; the log keeps,
\* for every pick, the selection it was made from and the boosts applied
RECURSIVE SelectLoop(_, _, _, _, _, _, _, _, _)
SelectLoop(combined, preset, selected, remaining, count, pair_lifts, use_pairs, s, log) ==
    IF Len(selected) >= count
    THEN [selected |-> selected, remaining |-> remaining, rng |-> s, log |-> log]
    ELSE LET pair_boosts ==
                 IF use_pairs /\ selected # <<>>
                 THEN _pair_boosts_from_selected(selected, remaining, pair_lifts, preset)
                 ELSE <<>>
             weights == _scores_to_weights(combined, remaining, preset, pair_boosts)
             c == _weighted_choice_no_replace(remaining, weights, s)
         IN  SelectLoop(combined, preset, Append(selected, c.pick),
                        Remove(remaining, c.pick), count, pair_lifts, use_pairs, c.rng,
                        Append(log, [selected |-> selected, remaining |-> remaining,
                                     boosts |-> pair_boosts, pick |-> c.pick]))

SeedSelection_without_locks(locked) == <<>>

\* "selected = list(dict.fromkeys(locked))"
SeedSelection(locked) == Dedupe(locked)

SeedRemaining_whole_range(selected, min_n, max_n) == RangeExcept(min_n, max_n, {})

\* "remaining = [n for n in range(min_n, max_n + 1) if n not in selected]"
SeedRemaining(selected, min_n, max_n) == RangeExcept(min_n, max_n, SeqToSet(selected))

BudgetLeft_off_by_one(n) == n <= MaxAttempts

\* "while attempts < 200"
BudgetLeft(n) == n < MaxAttempts

SeedRandom_if_truthy(seed, s) == IF seed # <<>> /\ seed[1] # 0 THEN RngSeed(seed[1]) ELSE s

\* "if seed is not None: random.seed(seed)"; a seed is <<>> (None) or <<k>>
SeedRandom(seed, s) == IF seed # <<>> THEN RngSeed(seed[1]) ELSE s

\* df[df["lottery"] == lottery]
FilterLottery(rows, lottery) == SelectSeq(rows, LAMBDA r : r.lottery = lottery)

\* the random source seeded only once the checks have passed
Prologue_seed_after_checks(a, s) ==
    LET s1   == SeedRandom(a.seed, s)
        df_l == FilterLottery(a.df.rows, a.lottery)
        fail(e, b) == [err |-> e, rng |-> s, df_l |-> df_l, main_combined |-> <<>>,
                       pair_lifts |-> <<>>, builds |-> b]
    IN  IF a.preset \notin DOMAIN PRESET_PARAMS THEN fail("ValueError: unknown preset", 0)
        ELSE IF a.lottery \notin DOMAIN LOTTERY_PROFILES
        THEN fail("ValueError: unknown lottery", 0)
        ELSE IF df_l = <<>> THEN fail("ValueError: no rows for lottery", 0)
        ELSE LET profile == LOTTERY_PROFILES[a.lottery]
                 mc == _build_combined_for_pool(df_l, profile.min, profile.max, a.preset)
                 pl == IF a.use_pairs
                       THEN _compute_pair_lifts(df_l, profile.min, profile.max)
                       ELSE <<>>
                 le == _validate_locks(a.locked, profile)
             IN  IF mc.err # "" THEN fail(mc.err, 1)
                 ELSE IF le # "" THEN fail(le, 1)
                 ELSE [err |-> "", rng |-> s1, df_l |-> df_l, main_combined |-> mc.val,
                       pair_lifts |-> pl, builds |-> 1]

\* generate_lines up to the sampling loop: seeding, the precondition checks and
\* the tables; err is the error raised, "" when the call goes on to sample
Prologue(a, s) ==
    LET s1   == SeedRandom(a.seed, s)
        df_l == FilterLottery(a.df.rows, a.lottery)
        fail(e, b) == [err |-> e, rng |-> s1, df_l |-> df_l, main_combined |-> <<>>,
                       pair_lifts |-> <<>>, builds |-> b]
    IN  IF a.preset \notin DOMAIN PRESET_PARAMS THEN fail("ValueError: unknown preset", 0)
        ELSE IF a.lottery \notin DOMAIN LOTTERY_PROFILES
        THEN fail("ValueError: unknown lottery", 0)
        ELSE IF df_l = <<>> THEN fail("ValueError: no rows for lottery", 0)
        ELSE LET profile == LOTTERY_PROFILES[a.lottery]
                 mc == _build_combined_for_pool(df_l, profile.min, profile.max, a.preset)
                 pl == IF a.use_pairs
                       THEN _compute_pair_lifts(df_l, profile.min, profile.max)
                       ELSE <<>>
                 le == _validate_locks(a.locked, profile)
             IN  IF mc.err # "" THEN fail(mc.err, 1)
                 ELSE IF le # "" THEN fail(le, 1)
                 ELSE [err |-> "", rng |-> s1, df_l |-> df_l, main_combined |-> mc.val,
                       pair_lifts |-> pl, builds |-> 1]

\* ------------------------------------------------------------------- inputs
\* the draws file the histories are cut from, oldest first
BaseHistory ==
    << [lottery |-> "irish_lotto",  numbers |-> <<1, 2, 3, 4, 5, 6>>,  bonus |-> <<>>],
       [lottery |-> "irish_lotto",  numbers |-> <<1, 2, 7, 8, 9, 10>>, bonus |-> <<>>],
       [lottery |-> "euromillions", numbers |-> <<2, 4, 6, 8, 10>>,    bonus |-> <<>>],
       [lottery |-> "euromillions", numbers |-> <<1, 2, 3, 4, 5>>,     bonus |-> <<1, 2>>],
       [lottery |-> "euromillions", numbers |-> <<1, 3, 5, 7, 9>>,     bonus |-> <<>>] >>

\* runs of at most MaxDraws consecutive draws
Windows ==
    { SubSeq(BaseHistory, i, j) :
        i \in 1..Len(BaseHistory), j \in 0..Len(BaseHistory) } \cap
    UNION { [1..k -> SeqToSet(BaseHistory)] : k \in 0..MaxDraws }

\* a file of irish_lotto draws alone has no bonus column; a history without a
\* bonus column carries no bonus entries
Datasets ==
    { d \in [rows : Windows, has_bonus : BOOLEAN] :
        /\ d.has_bonus \/ \A i \in DOMAIN d.rows : d.rows[i].bonus = <<>>
        /\ d.has_bonus => \E i \in DOMAIN d.rows : d.rows[i].lottery = "euromillions" }

SeqsUpTo(S, n) == UNION { [1..k -> S] : k \in 0..n }

Lotteries == { "irish_lotto", "euromillions", "lotto_max" }

Presets == { "conservative", "balanced", "aggressive", "bogus" }

LockValues == { 0, 2 }

OddPrefix(k) == [i \in 1..k |-> 2 * i - 1]

LockedChoices ==
    SeqsUpTo(LockValues, MaxShortLocks) \cup { OddPrefix(k) : k \in (MaxOddLocks - 1)..MaxOddLocks }

Seeds == { <<>> } \cup { <<k>> : k \in 0..MaxSeed }

RngInits == 0..MaxRngInit

CallArgs ==
    [ lottery : Lotteries, preset : Presets, num_lines : 1..MaxLines,
      locked : LockedChoices, enforce_balance : BOOLEAN, use_pairs : BOOLEAN,
      seed : Seeds, df : Datasets ]

NoArgs ==
    [ lottery |-> "", preset |-> "", num_lines |-> 0, locked |-> <<>>,
      enforce_balance |-> FALSE, use_pairs |-> FALSE, seed |-> <<>>,
      df |-> [rows |-> <<>>, has_bonus |-> FALSE] ]

\* -------------------------------------------------------------------- state
VARIABLES
    pc,             \* "idle", "loop", "sampling", "bonus", "returned", "raised"
    rng,            \* state of the process-wide random source
    args,           \* arguments of the call (df: the history of the lottery)
    main_combined,  \* Combined Score Table of the main pool
    pair_lifts,     \* Pair Lift Table
    results,        \* the list of lines built so far
    attempts,       \* attempts of _generate_single_line for the current line
    selected,       \* selection of the last attempt
    fallback,       \* the current line was returned with the budget exhausted
    log,            \* picks of the last attempt
    err,            \* the error raised, "" if none
    call_no,        \* 1 for the first call, 2 for its repetition
    prev_results,   \* what the first call returned
    perturbed,      \* the random source was used by other code after the first call
    draws,          \* values drawn from the random source by this call
    builds,         \* score tables built by this call, per pool
    trace,          \* per returned line: attempts made, fallback, balance
    bal,            \* inputs and result of a direct balance check
    cmb,            \* inputs and result of a direct combine_signals call
    lifts           \* inputs and result of a direct _compute_pair_lifts call

vars == << pc, rng, args, main_combined, pair_lifts, results, attempts, selected,
           fallback, log, err, call_no, prev_results, perturbed, draws, builds, trace,
           bal, cmb, lifts >>

callVars == << pc, rng, args, main_combined, pair_lifts, results, attempts, selected,
               fallback, log, err, call_no, prev_results, perturbed, draws, builds,
               trace >>

NoBal == [numbers |-> <<>>, min_n |-> 0, max_n |-> 0, result |-> FALSE, done |-> FALSE]

NoCmb == [short_term |-> <<>>, long_term |-> <<>>, hot_cold |-> <<>>, preset |-> "",
          out |-> <<>>, done |-> FALSE]

NoLifts == [df_l |-> <<>>, min_n |-> 0, max_n |-> 0, out |-> <<>>, done |-> FALSE]

Profile == LOTTERY_PROFILES[args.lottery]

IdleCall ==
    /\ pc = "idle"
    /\ args = NoArgs
    /\ main_combined = <<>>
    /\ pair_lifts = <<>>
    /\ results = <<>>
    /\ attempts = 0
    /\ selected = <<>>
    /\ fallback = FALSE
    /\ log = <<>>
    /\ err = ""
    /\ call_no = 1
    /\ prev_results = <<>>
    /\ perturbed = FALSE
    /\ draws = 0
    /\ builds = [main |-> 0, bonus |-> 0]
    /\ trace = <<>>

Init ==
    /\ IdleCall
    /\ rng \in RngInits
    /\ bal = NoBal
    /\ cmb = NoCmb
    /\ lifts = NoLifts

\* ------------------------------------------------------------------ actions
\* lines 70-98 of generate_lines with arguments a
Enter(a) ==
    \E p \in { Prologue(a, rng) } :
        /\ rng' = p.rng
        /\ args' = [a EXCEPT !.df = [rows |-> p.df_l, has_bonus |-> a.df.has_bonus]]
        /\ err' = p.err
        /\ pc' = IF p.err = "" THEN "loop" ELSE "raised"
        /\ main_combined' = p.main_combined
        /\ pair_lifts' = p.pair_lifts
        /\ results' = <<>>
        /\ attempts' = 0
        /\ selected' = <<>>
        /\ fallback' = FALSE
        /\ log' = <<>>
        /\ draws' = 0
        /\ builds' = [main |-> p.builds, bonus |-> 0]
        /\ trace' = <<>>

Call ==
    /\ pc = "idle"
    /\ \E a \in CallArgs : Enter(a)
    /\ UNCHANGED << call_no, prev_results, perturbed, bal, cmb, lifts >>

\* "for _ in range(num_lines)": the next line is started
NextLine ==
    /\ pc = "loop"
    /\ Len(results) < args.num_lines
    /\ pc' = "sampling"
    /\ attempts' = 0
    /\ selected' = <<>>
    /\ fallback' = FALSE
    /\ log' = <<>>
    /\ UNCHANGED << rng, args, main_combined, pair_lifts, results, err, call_no,
                    prev_results, perturbed, draws, builds, trace, bal, cmb, lifts >>

Accepts_any_selection(enforce_balance, numbers, min_n, max_n) == TRUE

\* lines 226-230: "if enforce_balance: if _passes_balance(...): return selected"
\* and "else: return selected"
Accepts(enforce_balance, numbers, min_n, max_n) ==
    IF enforce_balance THEN _passes_balance(numbers, min_n, max_n) ELSE TRUE

\* lines 209-223: the selection seeded with the locks and filled pick by pick
FillSelection ==
    LET sel0 == SeedSelection(args.locked)
        rem0 == SeedRemaining(sel0, Profile.min, Profile.max)
    IN  SelectLoop(main_combined, args.preset, sel0, rem0, Profile.numbers_per_draw,
                   pair_lifts, args.use_pairs, rng, <<>>)

\* one iteration of "while attempts < 200": the selection is seeded with the
\* locks, filled pick by pick and validated
Attempt ==
    /\ pc = "sampling"
    /\ BudgetLeft(attempts)
    /\ \E r \in { FillSelection } :
       LET accepted == Accepts(args.enforce_balance, r.selected, Profile.min, Profile.max)
       IN  /\ attempts' = attempts + 1
           /\ selected' = r.selected
           /\ log' = r.log
           /\ rng' = r.rng
           /\ draws' = draws + Len(r.log)
           /\ pc' = IF accepted THEN "bonus" ELSE "sampling"
    /\ UNCHANGED << args, main_combined, pair_lifts, results, fallback, err, call_no,
                    prev_results, perturbed, builds, trace, bal, cmb, lifts >>

\* the budget is used up: "return selected" after the loop
Exhausted ==
    /\ pc = "sampling"
    /\ ~BudgetLeft(attempts)
    /\ pc' = "bonus"
    /\ fallback' = TRUE
    /\ UNCHANGED << rng, args, main_combined, pair_lifts, results, attempts, selected,
                    log, err, call_no, prev_results, perturbed, draws, builds, trace, bal, cmb, lifts >>

\* "numbers": sorted(line_numbers), "bonus": sorted(bonus_numbers) if bonus_numbers else []
MakeLine(line_numbers, bonus_is_none, bonus_numbers) ==
    [numbers |-> Sorted(line_numbers),
     bonus   |-> IF bonus_is_none \/ bonus_numbers = <<>> THEN <<>> ELSE Sorted(bonus_numbers)]

LineTrace ==
    [attempts |-> attempts, fallback |-> fallback,
     balanced |-> _passes_balance(selected, Profile.min, Profile.max)]

\* lines 113-121 for a lottery without bonus pool
AppendLine ==
    /\ pc = "bonus"
    /\ ~Profile.bonus
    /\ results' = Append(results, MakeLine(selected, FALSE, <<>>))
    /\ trace' = Append(trace, LineTrace)
    /\ pc' = "loop"
    /\ UNCHANGED << rng, args, main_combined, pair_lifts, attempts, selected, fallback,
                    log, err, call_no, prev_results, perturbed, draws, builds, bal, cmb, lifts >>

\* lines 113-121 for a lottery with a bonus pool
BonusAndAppendLine ==
    /\ pc = "bonus"
    /\ Profile.bonus
    /\ \E b \in { _generate_bonus_numbers(args.df.rows, args.df.has_bonus, Profile,
                                            args.preset, rng) } :
           /\ rng' = b.rng
           /\ draws' = draws + b.draws
           /\ builds' = [builds EXCEPT !.bonus = @ + b.builds]
           /\ err' = b.err
           /\ IF b.err = ""
              THEN /\ results' = Append(results, MakeLine(selected, b.is_none, b.list))
                   /\ trace' = Append(trace, LineTrace)
                   /\ pc' = "loop"
              ELSE /\ UNCHANGED << results, trace >>
                   /\ pc' = "raised"
    /\ UNCHANGED << args, main_combined, pair_lifts, attempts, selected, fallback, log,
                    call_no, prev_results, perturbed, bal, cmb, lifts >>

\* "return results"
Return ==
    /\ pc = "loop"
    /\ Len(results) >= args.num_lines
    /\ pc' = "returned"
    /\ UNCHANGED << rng, args, main_combined, pair_lifts, results, attempts, selected,
                    fallback, log, err, call_no, prev_results, perturbed, draws, builds, trace,
                    bal, cmb, lifts >>

\* between two calls other code of the process uses the random source
OtherUse ==
    /\ pc = "returned"
    /\ call_no = 1
    /\ \E s \in RngInits : s # rng /\ rng' = s
    /\ perturbed' = TRUE
    /\ UNCHANGED << pc, args, main_combined, pair_lifts, results, attempts, selected,
                    fallback, log, err, call_no, prev_results, draws, builds, trace,
                    bal, cmb, lifts >>

\* the caller repeats a seeded call with the same arguments
CallAgain ==
    /\ pc = "returned"
    /\ call_no = 1
    /\ args.seed # <<>>
    /\ Enter(args)
    /\ call_no' = 2
    /\ prev_results' = results
    /\ UNCHANGED << perturbed, bal, cmb, lifts >>

Next ==
    \/ Call
    \/ NextLine
    \/ Attempt
    \/ Exhausted
    \/ AppendLine
    \/ BonusAndAppendLine
    \/ Return
    \/ OtherUse
    \/ CallAgain

Spec == Init /\ [][Next]_vars

\* ------------------------------------------- direct calls of pure functions
\* lists of distinct numbers, in ascending and in descending order
Reverse(q) == [i \in DOMAIN q |-> q[Len(q) + 1 - i]]

BalLists ==
    { SortedSet(S) : S \in SUBSET (0..MaxBalValue) }
    \cup { Reverse(SortedSet(S)) : S \in SUBSET (0..MaxBalValue) }
    \cup { <<1, 2, 3, 4, 5, 6>>, <<1, 3, 5, 7, 9, 11>> }

BalRanges ==
    { <<lo, hi>> \in (0..1) \X ((MaxBalValue - 1)..(MaxBalValue + 1)) : TRUE }
    \cup { <<MIN_NUMBER, MAX_NUMBER>> }

InitBalance ==
    /\ IdleCall
    /\ rng = 0
    /\ cmb = NoCmb
    /\ lifts = NoLifts
    /\ \E q \in BalLists, r \in BalRanges :
         bal = [numbers |-> q, min_n |-> r[1], max_n |-> r[2], result |-> FALSE,
                done |-> FALSE]

CheckBalance ==
    /\ ~bal.done
    /\ bal' = [bal EXCEPT !.result = _passes_balance(bal.numbers, bal.min_n, bal.max_n),
                          !.done = TRUE]
    /\ UNCHANGED << callVars, cmb, lifts >>

NextBalance == CheckBalance

SpecBalance == InitBalance /\ [][NextBalance]_vars

Mappings(V) == UNION { [D -> V] : D \in SUBSET (1..MaxKey) }

InitCombine ==
    /\ IdleCall
    /\ rng = 0
    /\ bal = NoBal
    /\ lifts = NoLifts
    /\ \E st \in Mappings({0 - Scale, 0, 2 * Scale}),
          lt \in Mappings({0 - Scale, 0, 2 * Scale}),
          hc \in Mappings({0, Scale}),
          p \in DOMAIN PRESET_PARAMS :
         cmb = [short_term |-> st, long_term |-> lt, hot_cold |-> hc, preset |-> p,
                out |-> <<>>, done |-> FALSE]

Combine ==
    /\ ~cmb.done
    /\ cmb' = [cmb EXCEPT !.out = combine_signals(cmb.short_term, cmb.long_term,
                                                  cmb.hot_cold, cmb.preset),
                          !.done = TRUE]
    /\ UNCHANGED << callVars, bal, lifts >>

NextCombine == Combine

SpecCombine == InitCombine /\ [][NextCombine]_vars

\* histories of at most MaxLiftDraws draws, each a set of distinct numbers of
\* the range in ascending order
LiftDraws == { [numbers |-> SortedSet(S)] : S \in SUBSET (1..LiftPoolMax) }

LiftHistories == SeqsUpTo(LiftDraws, MaxLiftDraws)

InitLifts ==
    /\ IdleCall
    /\ rng = 0
    /\ bal = NoBal
    /\ cmb = NoCmb
    /\ \E h \in LiftHistories :
         lifts = [df_l |-> h, min_n |-> 1, max_n |-> LiftPoolMax, out |-> <<>>,
                  done |-> FALSE]

ComputeLifts ==
    /\ ~lifts.done
    /\ lifts' = [lifts EXCEPT !.out = _compute_pair_lifts(lifts.df_l, lifts.min_n,
                                                          lifts.max_n),
                              !.done = TRUE]
    /\ UNCHANGED << callVars, bal, cmb >>

NextLifts == ComputeLifts

SpecLifts == InitLifts /\ [][NextLifts]_vars

\* ------------------------------------------------------------------- claims
StrictlyIncreasing(q) == \A i \in 1..(Len(q) - 1) : q[i] < q[i + 1]

Within(q, lo, hi) == \A i \in DOMAIN q : lo <= q[i] /\ q[i] <= hi

\* C1: every line returned (also one returned with the attempt budget
\* exhausted) has numbers_per_draw main numbers, strictly increasing and
\* within [min, max], and a call that returns has built num_lines lines.
C1_LinesWellFormed ==
    /\ \A i \in DOMAIN results :
         /\ Len(results[i].numbers) = Profile.numbers_per_draw
         /\ StrictlyIncreasing(results[i].numbers)
         /\ Within(results[i].numbers, Profile.min, Profile.max)
    /\ pc = "returned" => Len(results) = args.num_lines

C1_Witness ==
    /\ pc = "returned"
    /\ Len(results) = 2
    /\ args.locked # <<>>
    /\ trace[1].fallback
    /\ ~trace[2].balanced

\* C2: every locked number is among the main numbers of every line returned,
\* accepted by the balance check or returned by the exhausted-budget fallback.
C2_LocksPreserved ==
    /\ \A i \in DOMAIN results : SeqToSet(args.locked) \subseteq SeqToSet(results[i].numbers)
    /\ pc = "returned" => Len(results) = args.num_lines /\ Len(trace) = Len(results)

C2_Witness ==
    /\ pc = "returned"
    /\ args.locked = <<1, 3, 5, 7, 9>>
    /\ args.use_pairs
    /\ Len(results) = args.num_lines
    /\ \A i \in DOMAIN trace : trace[i].fallback /\ trace[i].attempts = MaxAttempts

\* C3: a seeded call repeated with the same arguments returns the same list of
\* lines, whatever the random source held before each of the two calls.
C3_Deterministic == (pc = "returned" /\ call_no = 2) => results = prev_results

C3_Witness ==
    /\ pc = "returned"
    /\ call_no = 2
    /\ perturbed
    /\ args.seed = <<0>>
    /\ Len(results) = 2
    /\ results[1].numbers # results[2].numbers

\* C4: the sampler makes at most 200 attempts, every attempt makes exactly
\* count - |locked| picks and completes the selection, every step of the
\* sampler either returns or uses up one attempt of the budget (so it cannot
\* loop), and with the budget used up it returns, without error, the complete
\* selection of the 200th attempt.
C4_SamplerState ==
    /\ attempts <= MaxAttempts
    /\ (pc \in {"sampling", "bonus"} /\ attempts > 0) =>
         /\ Len(log) = Profile.numbers_per_draw - Len(args.locked)
         /\ Len(selected) = Profile.numbers_per_draw
    /\ fallback =>
         /\ attempts = MaxAttempts
         /\ err = ""
         /\ selected = args.locked \o [i \in DOMAIN log |-> log[i].pick]

C4_SamplerStep ==
    /\ pc = "sampling" => (pc' = "bonus" \/ (pc' = "sampling" /\ attempts' = attempts + 1))
    /\ (fallback' /\ ~fallback) =>
         (pc' = "bonus" /\ attempts = MaxAttempts /\ selected' = selected)

C4_Terminates == []C4_SamplerState /\ [][C4_SamplerStep]_vars

C4_Witness ==
    /\ pc = "bonus"
    /\ fallback
    /\ attempts = MaxAttempts
    /\ Len(log) = 1

\* the preconditions of generate_lines, on the arguments alone
LocksBad(locked, profile) ==
    \/ \E i, j \in DOMAIN locked : i < j /\ locked[i] = locked[j]
    \/ Len(locked) > profile.numbers_per_draw
    \/ \E i \in DOMAIN locked : locked[i] < profile.min \/ locked[i] > profile.max

BadArgs(a) ==
    \/ a.preset \notin {"conservative", "balanced", "aggressive"}
    \/ a.lottery \notin {"irish_lotto", "euromillions"}
    \/ a.df.rows = <<>>
    \/ LocksBad(a.locked, LOTTERY_PROFILES[a.lottery])

\* C5: a call whose preset or lottery is unknown, whose history for the lottery
\* is empty or whose locks are invalid ends in an error, with no line built
\* and no value drawn from the random source.
C5_FailFast ==
    (pc # "idle" /\ BadArgs(args)) =>
        (pc = "raised" /\ err # "" /\ results = <<>> /\ draws = 0)

C5_Witness ==
    /\ pc = "raised"
    /\ args.locked = <<2, 2>>
    /\ args.preset = "balanced"
    /\ args.lottery = "irish_lotto"
    /\ args.df.rows # <<>>
    /\ draws = 0

\* C6 (as claimed): with a bonus pool and a bonus history that has a non-empty
\* entry, every line returned has bonus_count distinct bonus numbers within
\* [bonus_min, bonus_max].
C6_BonusDrawnFromHistory ==
    \A i \in DOMAIN results :
        (Profile.bonus /\ BonusBranch(args.df.rows, args.df.has_bonus) = "weighted") =>
            /\ Len(results[i].bonus) = Profile.bonus_count
            /\ StrictlyIncreasing(results[i].bonus)
            /\ Within(results[i].bonus, Profile.bonus_min, Profile.bonus_max)

\* C7: without bonus history the bonus sampler returns, without error, exactly
\* bonus_count distinct numbers within [bonus_min, bonus_max], drawn by one
\* shuffle of the bonus range (pool size - 1 draws); it builds no score table,
\* and what it returns is fixed by the bonus range and the random source alone.
C7_Step ==
    (pc = "bonus" /\ Profile.bonus
       /\ BonusBranch(args.df.rows, args.df.has_bonus) = "uniform") =>
        /\ pc' = "loop"
        /\ err' = ""
        /\ Len(results') = Len(results) + 1
        /\ LET b == results'[Len(results')].bonus
           IN  /\ Len(b) = Profile.bonus_count
               /\ StrictlyIncreasing(b)
               /\ Within(b, Profile.bonus_min, Profile.bonus_max)
               /\ b = Sorted(SubSeq(Shuffle(RangeExcept(Profile.bonus_min,
                                                        Profile.bonus_max, {}), rng).list,
                                     1, Profile.bonus_count))
        /\ draws' = draws + (Profile.bonus_max - Profile.bonus_min)
        /\ builds' = builds
        /\ rng' = Shuffle(RangeExcept(Profile.bonus_min, Profile.bonus_max, {}), rng).rng

C7_BonusFallback == [][C7_Step]_vars

C7_Witness ==
    /\ pc = "loop"
    /\ Len(results) = 2
    /\ Profile.bonus
    /\ args.df.has_bonus
    /\ BonusBranch(args.df.rows, args.df.has_bonus) = "uniform"
    /\ Len(results[2].bonus) = 2
    /\ results[1].bonus # results[2].bonus

OddCount(q) == Cardinality({ n \in SeqToSet(q) : n % 2 = 1 })

LowCount(q, lo, hi) == Cardinality({ n \in SeqToSet(q) : 2 * n <= lo + hi })

\* C8: for a list of distinct numbers, _passes_balance is true exactly when
\* the list has fewer than 6 numbers, or its count of odd numbers and its count
\* of numbers <= (min + max) / 2 both lie in [2, 4].
C8_BalanceRule ==
    bal.done =>
        (bal.result <=>
            \/ Len(bal.numbers) < 6
            \/ /\ OddCount(bal.numbers) \in 2..4
               /\ LowCount(bal.numbers, bal.min_n, bal.max_n) \in 2..4)

C8_Witness ==
    /\ bal.done
    /\ bal.result
    /\ Len(bal.numbers) = 6
    /\ LowCount(bal.numbers, bal.min_n, bal.max_n) = 4
    /\ bal.max_n + bal.min_n \in SeqToSet([i \in DOMAIN bal.numbers |-> 2 * bal.numbers[i]])

IsExample(q) ==
    bal.done /\ bal.numbers = q /\ bal.min_n = MIN_NUMBER /\ bal.max_n = MAX_NUMBER

\* C9 (as claimed): in range [1, 49], [1,2,3,4,5,6] passes the balance check
\* and [1,3,5,7,9,11] fails it on parity.
C9_ExamplesAsClaimed ==
    /\ IsExample(<<1, 2, 3, 4, 5, 6>>) => bal.result
    /\ IsExample(<<1, 3, 5, 7, 9, 11>>) => (~bal.result /\ OddCount(bal.numbers) \notin 2..4)

\* C9 (amended): in range [1, 49], [1,2,3,4,5,6] fails the balance check on the
\* range split (parity is fine: 3 odd numbers; all 6 numbers are <= 25), and
\* [1,3,5,7,9,11] fails it on parity (6 odd numbers).
C9_Examples ==
    /\ IsExample(<<1, 2, 3, 4, 5, 6>>) =>
         /\ ~bal.result
         /\ OddCount(bal.numbers) \in 2..4
         /\ LowCount(bal.numbers, bal.min_n, bal.max_n) = 6
    /\ IsExample(<<1, 3, 5, 7, 9, 11>>) => (~bal.result /\ OddCount(bal.numbers) = 6)

C9_Witness == IsExample(<<1, 2, 3, 4, 5, 6>>) /\ ~bal.result

\* C10 (as claimed): the combined table is empty whenever one of the three
\* input mappings is empty.
C10_EmptyIfAnyEmpty ==
    (cmb.done /\ (cmb.short_term = <<>> \/ cmb.long_term = <<>> \/ cmb.hot_cold = <<>>))
        => cmb.out = <<>>

\* C10 (amended): the combined table has exactly the keys of the short-term
\* mapping, so it is empty exactly when the short-term mapping is empty; an
\* empty or partial long-term or hot/cold mapping counts 0 for the keys it lacks.
C10_KeysOfShortTerm ==
    cmb.done =>
        /\ DOMAIN cmb.out = DOMAIN cmb.short_term
        /\ (cmb.out = <<>>) <=> (cmb.short_term = <<>>)
        /\ \A n \in DOMAIN cmb.out :
             (cmb.long_term = <<>> /\ cmb.hot_cold = <<>> /\ cmb.preset = "balanced") =>
                 cmb.out[n].score =
                     FxDiv(WEIGHT_SHORT_TERM * _normalize(cmb.short_term)[n], 100)

C10_Witness ==
    /\ cmb.done
    /\ cmb.short_term # <<>>
    /\ cmb.long_term = <<>>
    /\ cmb.hot_cold # <<>>
    /\ cmb.out # <<>>

\* C11: the table built by _compute_pair_lifts has only keys (a, b) with
\* a < b in the range (so (b, a) is never a second entry), every value lies in
\* [0, 2.0], a pair is present only if some draw holds both numbers, and an
\* empty history gives an empty table.
C11_PairLiftTable ==
    lifts.done =>
        /\ \A k \in DOMAIN lifts.out :
              /\ k[1] < k[2]
              /\ lifts.min_n <= k[1] /\ k[2] <= lifts.max_n
              /\ <<k[2], k[1]>> \notin DOMAIN lifts.out
              /\ 0 <= lifts.out[k] /\ lifts.out[k] <= 2 * Scale
              /\ \E i \in DOMAIN lifts.df_l :
                    {k[1], k[2]} \subseteq SeqToSet(lifts.df_l[i].numbers)
        /\ lifts.df_l = <<>> => lifts.out = <<>>

\* a history of four draws where one pair is held down by the cap (lift 4.0,
\* excess 3.0) and another has no excess
C11_Witness ==
    /\ lifts.done
    /\ lifts.df_l = << [numbers |-> <<1, 2, 3>>], [numbers |-> <<3>>],
                       [numbers |-> <<3>>], [numbers |-> <<3>>] >>
    /\ lifts.out[<<1, 2>>] = 2 * Scale
    /\ lifts.out[<<1, 3>>] = 0
    /\ DOMAIN lifts.out = { <<1, 2>>, <<1, 3>>, <<2, 3>> }

\* the balance rule of the main numbers, on the set of numbers
MeetsBalanceRule(q, lo, hi) ==
    Len(q) >= BalanceMinCount =>
        (OddCount(q) \in 2..4 /\ LowCount(q, lo, hi) \in 2..4)

\* C12: with enforce_balance on, a line returned after fewer than 200 attempts
\* passes the balance rule, and a further attempt is only ever made after an
\* attempt whose selection fails it; with enforce_balance off every line is the
\* selection of the first attempt.
C12_State ==
    /\ Len(trace) = Len(results)
    /\ \A i \in DOMAIN trace :
          /\ (args.enforce_balance /\ trace[i].attempts < MaxAttempts) =>
                /\ ~trace[i].fallback
                /\ MeetsBalanceRule(results[i].numbers, Profile.min, Profile.max)
          /\ ~args.enforce_balance => (trace[i].attempts = 1 /\ ~trace[i].fallback)
    /\ (pc = "sampling" /\ attempts > 0) =>
          (args.enforce_balance /\ ~MeetsBalanceRule(selected, Profile.min, Profile.max))

C12_Step ==
    /\ (pc = "sampling" /\ pc' = "sampling") =>
          /\ args.enforce_balance
          /\ attempts' = attempts + 1
          /\ ~MeetsBalanceRule(selected', Profile.min, Profile.max)
    /\ (pc = "sampling" /\ pc' = "bonus" /\ ~fallback') =>
          /\ attempts' = attempts + 1
          /\ args.enforce_balance => MeetsBalanceRule(selected', Profile.min, Profile.max)
    /\ Len(results') = Len(results) + 1 =>
          /\ results'[Len(results')].numbers = Sorted(selected)
          /\ trace'[Len(trace')].attempts = attempts

C12_AcceptedOrExhausted == []C12_State /\ [][C12_Step]_vars

\* a line accepted on a retry: earlier attempts failed the rule, the accepted
\* one passes it
C12_Witness ==
    /\ pc = "returned"
    /\ args.enforce_balance
    /\ \E i \in DOMAIN trace :
          /\ trace[i].attempts > 1
          /\ trace[i].attempts < MaxAttempts
          /\ ~trace[i].fallback
          /\ MeetsBalanceRule(results[i].numbers, Profile.min, Profile.max)

\* the boost a candidate gets from a table of boosts: 0 when it has no entry
BoostOf(boosts, c) == IF c \in DOMAIN boosts THEN boosts[c] ELSE 0

\* pair_strength times the sum, over the selection, of the excess stored under
\* (min(s, c), max(s, c)); pair_strength is kept in hundredths
ExpectedBoost(sel, c) ==
    LET excess(x) ==
            IF <<Min2(x, c), Max2(x, c)>> \in DOMAIN pair_lifts
            THEN pair_lifts[<<Min2(x, c), Max2(x, c)>>]
            ELSE 0
    IN  FxDiv(SumSeq([j \in DOMAIN sel |-> excess(sel[j])])
                * PRESET_PARAMS[args.preset].pair_strength, 100)

\* C13: before every pick of an attempt the selection is the locks followed by
\* the picks made so far, and the boost of every remaining candidate is
\* pair_strength times the sum of the pair-lift excess with every number of
\* that selection (absent pairs count 0); it is 0 when use_pairs is off or the
\* selection is empty.
C13_PerPickBoosts ==
    \A i \in DOMAIN log :
        /\ log[i].selected = args.locked \o [j \in 1..(i - 1) |-> log[j].pick]
        /\ \A c \in SeqToSet(log[i].remaining) :
              BoostOf(log[i].boosts, c) =
                  IF args.use_pairs /\ log[i].selected # <<>>
                  THEN ExpectedBoost(log[i].selected, c)
                  ELSE 0

\* five locked numbers, two of them (3 and 5) with excess 1.0 towards 4: the
\* first pick of the attempt is made with 4 boosted by 2 * pair_strength
C13_Witness ==
    /\ pc = "bonus"
    /\ args.use_pairs
    /\ args.locked = <<1, 3, 5, 7, 9>>
    /\ Len(log) = 1
    /\ <<3, 4>> \in DOMAIN pair_lifts
    /\ pair_lifts[<<3, 4>>] = Scale
    /\ <<4, 7>> \notin DOMAIN pair_lifts
    /\ BoostOf(log[1].boosts, 4) = 2 * 10 * PRESET_PARAMS[args.preset].pair_strength
    /\ BoostOf(log[1].boosts, 2) = 0

\* the call got past the precondition checks and is generating lines
Generating == pc \in {"loop", "sampling", "bonus", "returned"}

\* the history of the lottery has a bonus column with at least one entry
HasBonusHistory ==
    /\ Profile.bonus
    /\ args.df.has_bonus
    /\ \E i \in DOMAIN args.df.rows : args.df.rows[i].bonus # <<>>

\* C14 as claimed: in one call the score table of the main pool is built
\* exactly once and that of the bonus pool at most once, whatever num_lines.
C14_BuiltOncePerPool ==
    Generating => (builds.main = 1 /\ builds.bonus <= 1)

\* C14, amended: the score table of the main pool is built exactly once per
\* call and only read afterwards; the score table of the bonus pool is built
\* anew by every call of the bonus sampler that finds bonus history, once per
\* line, and never without bonus history.
C14_State ==
    /\ Generating =>
          /\ builds.main = 1
          /\ builds.bonus = IF HasBonusHistory THEN Len(results) ELSE 0
    /\ (pc = "raised" /\ BadArgs(args)) => (builds.main <= 1 /\ builds.bonus = 0)
    /\ (pc = "raised" /\ ~BadArgs(args)) =>
          (HasBonusHistory /\ builds.main = 1 /\ builds.bonus = Len(results) + 1)

C14_Step ==
    (pc \in {"loop", "sampling", "bonus"}) =>
        (main_combined' = main_combined /\ pair_lifts' = pair_lifts
         /\ builds'.main = builds.main)

C14_BuildsPerLine == []C14_State /\ [][C14_Step]_vars

\* two lines on a bonus lottery with bonus history: the bonus table was built
\* twice, the main table once
C14_Witness ==
    /\ pc = "returned"
    /\ args.lottery = "euromillions"
    /\ args.num_lines = 2
    /\ Len(results) = 2
    /\ HasBonusHistory
    /\ builds = [main |-> 1, bonus |-> 2]

\* C15 as claimed: a call that ends in a precondition error leaves the random
\* source as it was before the call, with or without a seed argument.
C15_RngUntouchedOnError ==
    [][(pc = "idle" /\ pc' = "raised") => rng' = rng]_vars

\* C15, amended: a call that ends in a precondition error draws nothing from
\* the random source and leaves it as it was when no seed was given; when a
\* seed was given the source has been reseeded with it before the first check.
C15_Step ==
    (pc = "idle" /\ pc' = "raised") =>
        /\ draws' = 0
        /\ rng' = IF args'.seed = <<>> THEN rng ELSE RngSeed(args'.seed[1])

C15_SeededBeforeChecks == [][C15_Step]_vars

\* a seeded call with an unknown preset has raised, and the random source is
\* in the state the seed gives, which no caller had left it in
C15_Witness ==
    /\ pc = "raised"
    /\ args.preset = "bogus"
    /\ args.seed # <<>>
    /\ results = <<>>
    /\ rng = RngSeed(args.seed[1])
    /\ rng \notin RngInits

====
